---- MODULE Spec2Model ----
(***************************************************************************)
(* Clusterfy (src/app.py): a Streamlit page that loads the public          *)
(* playlists of a Spotify profile into a table of songs, plots the         *)
(* distribution of one audio feature and embeds the songs in a 2D/3D map.  *)
(*                                                                         *)
(* Four specifications share the module:                                   *)
(*   SpecFetch  load_playlists behind st.cache_data(ttl)                   *)
(*   SpecUI     the page script (one action per script run)                *)
(*   SpecEmbed  plot_songs behind st.cache_data                            *)
(*   SpecDist   plot_distribution                                          *)
(***************************************************************************)
EXTENDS Integers, Sequences, FiniteSets, TLC

VARIABLES
    profile,        \* upstream: the playlists of the profile, in listing order
    cache,          \* st.cache_data entry of load_playlists for the profile id
    fetchResult,    \* outcome of the last load_playlists call
    lastFault,      \* the upstream fault that call met
    userCache,      \* st.cache_data entry of load_profile for the profile id
    session_state,  \* st.session_state.get("user_id")
    screen,         \* what the last script run rendered
    songs,          \* the DataFrame object handed to plot_songs
    plotCache,      \* st.cache_data entries of plot_songs
    calls,          \* outcomes of the plot_songs calls made so far
    distInput,      \* arguments of plot_distribution
    chart           \* what plot_distribution drew

vars == <<profile, cache, fetchResult, lastFault, userCache, session_state, screen,
          songs, plotCache, calls, distInput, chart>>

fetchVars == <<profile, cache, fetchResult, lastFault>>
uiVars == <<userCache, session_state, screen>>
embedVars == <<songs, plotCache, calls>>
distVars == <<distInput, chart>>

(***************************************************************************)
(* Bounds of the model.  The page sizes stand for the page sizes of the    *)
(* client (scaled down): a profile has at most one page of playlists plus  *)
(* one playlist, a playlist at most one page of tracks plus one track.     *)
(***************************************************************************)
PlaylistPageLimit == 2
TrackPageLimit == 1
MaxSongs == 3
MaxPlaylists == PlaylistPageLimit + 1
MaxTracks == TrackPageLimit + 1
MaxSize == 4
MaxCode == 3
MaxCalls == 2

\* track.id is None
NoId == 0
Names == {"A", "B"}
TrackIds == {NoId, NoId + 1}
Errors == {"not_found", "network"}

Min(a, b) == IF a < b THEN a ELSE b

RECURSIVE Concat(_)
Concat(ss) == IF ss = <<>> THEN <<>> ELSE Head(ss) \o Concat(Tail(ss))

SeqsUpTo(S, n) == UNION {[1..k -> S] : k \in 0..n}

Count(s, P(_)) == Cardinality({i \in DOMAIN s : P(s[i])})

(***************************************************************************)
(* load_playlists                                                          *)
(***************************************************************************)
RECURSIVE Sum(_)
Sum(s) == IF s = <<>> THEN 0 ELSE Head(s) + Sum(Tail(s))

\* The profiles of the model: the numbers of tracks of the playlists (at
\* most MaxSongs tracks in all), their names and the ids of their tracks.
\* The code only compares playlist names with each other, so a profile is
\* taken up to renaming: its first playlist is called "A".
Shapes == {l \in SeqsUpTo(0..MaxTracks, MaxPlaylists) : Sum(l) <= MaxSongs}
ProfileOf(l, nm, ids) ==
    [i \in 1..Len(l) |->
        [name |-> nm[i],
         tracks |-> SubSeq(ids, Sum(SubSeq(l, 1, i - 1)) + 1, Sum(SubSeq(l, 1, i)))]]
Profiles ==
    UNION {{ProfileOf(l, nm, ids) :
                nm \in {f \in [1..Len(l) -> Names] : l = <<>> \/ f[1] = "A"},
                ids \in [1..Sum(l) -> TrackIds]} : l \in Shapes}

Ev(op, pl, tr, id) == [op |-> op, pl |-> pl, tr |-> tr, id |-> id]
IsCall(e) == e.op \in {"playlists", "playlist", "next", "features"}

\* spotify.playlists(user_id): the first page of the listing; the script
\* iterates playlists.items and never follows the paging's next link.
ListedPlaylists(p) == SubSeq(p, 1, Min(Len(p), PlaylistPageLimit))

\* spotify.all_items: the next page is requested once the items of the
\* current page are consumed and a further page exists.
PageEvents(i, j) ==
    IF j > 1 /\ (j - 1) % TrackPageLimit = 0 THEN <<Ev("next", i, j, NoId)>> ELSE <<>>

\* One iteration of the loop over the tracks of playlist i.
TrackEventsLookupFirst(p, i, j) ==
    LET id == p[i].tracks[j]
    IN PageEvents(i, j) \o
       <<Ev("features", i, j, id)>> \o
       (IF id = NoId THEN <<>> ELSE <<Ev("append", i, j, id), Ev("sleep", i, j, id)>>)

TrackEvents(p, i, j) ==
    LET id == p[i].tracks[j]
    IN PageEvents(i, j) \o
       (IF id = NoId
        THEN <<>>
        ELSE <<Ev("features", i, j, id), Ev("append", i, j, id), Ev("sleep", i, j, id)>>)

PlaylistEvents(p, i) ==
    <<Ev("playlist", i, 0, NoId)>> \o
    Concat([j \in 1..Len(p[i].tracks) |-> TrackEvents(p, i, j)])

\* Everything the body of load_playlists does when no upstream call fails.
FullTrace(p) ==
    <<Ev("playlists", 0, 0, NoId)>> \o
    Concat([i \in 1..Len(ListedPlaylists(p)) |-> PlaylistEvents(p, i)])

NumCalls(t) == Count(t, IsCall)

\* The row of the table built from an append event; pl is the position of
\* the playlist in the listing (not a column of the DataFrame).
Row(p, e) == [playlist |-> p[e.pl].name, pl |-> e.pl, id |-> e.id]

RowsOf(p, t) ==
    LET app == SelectSeq(t, LAMBDA e : e.op = "append")
    IN [k \in 1..Len(app) |-> Row(p, app[k])]

\* An upstream fault: the upstream call at position at of the trace raises
\* err (at = 0: no call fails).
NoFault == [at |-> 0, err |-> "none"]
Faults(full) ==
    {NoFault} \cup [at : {n \in DOMAIN full : IsCall(full[n])}, err : Errors]

\* The body of load_playlists under a fault, full being FullTrace(p).  There
\* is no try/except: the exception ends the body and nothing is returned.
FetchBody(p, full, fault) ==
    IF fault.at = 0
    THEN [status |-> "ok", error |-> "none", events |-> full,
          returned |-> TRUE, value |-> RowsOf(p, full)]
    ELSE [status |-> "error", error |-> fault.err,
          events |-> SubSeq(full, 1, fault.at),
          returned |-> FALSE, value |-> <<>>]

NoEntry == [present |-> FALSE, value |-> <<>>]
Entry(v) == [present |-> TRUE, value |-> v]

\* load_playlists(user_id) through st.cache_data: a hit returns the stored
\* value without running the body.
LoadPlaylists(c, p, full, fault) ==
    IF c.present
    THEN [status |-> "ok", error |-> "none", events |-> <<>>,
          returned |-> TRUE, value |-> c.value]
    ELSE FetchBody(p, full, fault)

\* st.cache_data: the entry after the call; a value is stored only when the
\* body returned.
CacheAfterStorePartial(c, p, r) ==
    IF c.present THEN c
    ELSE IF r.status = "ok" THEN Entry(r.value) ELSE Entry(RowsOf(p, r.events))

CacheAfter(c, p, r) ==
    IF c.present THEN c
    ELSE IF r.status = "ok" THEN Entry(r.value) ELSE c

NoResult == [status |-> "none", error |-> "none", events |-> <<>>,
             returned |-> FALSE, value |-> <<>>]

FetchInit ==
    /\ profile \in Profiles
    /\ cache = NoEntry
    /\ fetchResult = NoResult
    /\ lastFault = NoFault

\* A call of load_playlists(user_id).
Load ==
    LET full == FullTrace(profile)
    IN \E fault \in IF cache.present THEN {NoFault} ELSE Faults(full) :
        LET r == LoadPlaylists(cache, profile, full, fault)
        IN /\ fetchResult' = r
           /\ lastFault' = fault
           /\ cache' = CacheAfter(cache, profile, r)
           /\ UNCHANGED <<profile, uiVars, embedVars, distVars>>

\* ttl=timedelta(hours=1): the entry expires.
Expire ==
    /\ cache.present
    /\ cache' = NoEntry
    /\ UNCHANGED <<profile, fetchResult, lastFault, uiVars, embedVars, distVars>>

(***************************************************************************)
(* The page script (lines 182-241): one run per user interaction.          *)
(***************************************************************************)
UserId == "u"
NoUser == "None"
TextInputs == {"", UserId}

Blank == [status |-> "blank", error |-> "none", caption |-> FALSE,
          warning |-> FALSE, metrics |-> FALSE,
          playlists |-> 0, songs |-> 0, distCalls |-> 0, mapCalls |-> 0,
          hue |-> "None", dims |-> 0]

\* len(songs) == 0
IsEmptyNever(t) == FALSE

IsEmpty(t) == Len(t) = 0

\* songs.playlist.nunique()
NUnique(t) == Cardinality({t[k].playlist : k \in DOMAIN t})

\* The part of the script below load_playlists (lines 203-241).  The table
\* is the copy st.cache_data hands out for this run.
Render(t, hue, dims) ==
    IF IsEmpty(t)
    THEN [Blank EXCEPT !.status = "warning", !.caption = TRUE, !.warning = TRUE]
    ELSE [Blank EXCEPT !.status = "content", !.caption = TRUE, !.metrics = TRUE,
                       !.playlists = NUnique(t), !.songs = Len(t),
                       !.distCalls = 1, !.mapCalls = 1,
                       !.hue = hue, !.dims = dims]

UIInit ==
    /\ userCache = FALSE
    /\ session_state = NoUser
    /\ screen = Blank

\* The faults a script run can meet, as far as the page can tell them apart:
\* it shows only that the fetch raised and what it raised, so the first and
\* the last upstream call stand for the failing call.
PageFaults(full) ==
    LET at == {n \in DOMAIN full : IsCall(full[n])}
    IN {f \in Faults(full) : \/ f.at = 0
                              \/ \A n \in at : f.at <= n
                              \/ \A m \in at : f.at >= m}

ErrorScreen(err, caption) ==
    [Blank EXCEPT !.status = "error", !.error = err, !.caption = caption]

\* One script run: clicked is whether the button triggered the run, text the
\* content of the text input (read only when the button was clicked), userErr the error of spotify.user when
\* load_profile is not cached, fault the upstream fault met by the fetch
\* when load_playlists is not cached, split the checkbox, dims the radio.
Run ==
    LET full == FullTrace(profile)
    IN
    \E clicked \in BOOLEAN :
    \E text \in IF clicked THEN TextInputs ELSE {session_state} :
        LET user_id == IF clicked THEN text ELSE session_state
        IN /\ session_state' = user_id
           /\ \/ /\ user_id \in {"", NoUser}
                 /\ screen' = Blank
                 /\ UNCHANGED <<cache, userCache>>
              \/ /\ user_id \notin {"", NoUser}
                 /\ ~userCache
                 /\ \E userErr \in Errors : screen' = ErrorScreen(userErr, FALSE)
                 /\ UNCHANGED <<cache, userCache>>
              \/ /\ user_id \notin {"", NoUser}
                 /\ userCache' = TRUE
                 /\ \E fault \in IF cache.present THEN {NoFault} ELSE PageFaults(full) :
                        LET r == LoadPlaylists(cache, profile, full, fault)
                        IN /\ cache' = CacheAfter(cache, profile, r)
                           /\ IF r.status = "ok"
                              THEN \E split \in BOOLEAN, dims \in {2, 3} :
                                       screen' = Render(r.value,
                                                        IF split THEN "playlist" ELSE "None",
                                                        dims)
                              ELSE screen' = ErrorScreen(r.error, TRUE)
           /\ UNCHANGED <<profile, fetchResult, lastFault, embedVars, distVars>>

(***************************************************************************)
(* plot_songs                                                              *)
(***************************************************************************)
RandomState == 42

\* The DataFrame as plot_songs sees it: rows per playlist name, and the
\* columns the function adds (<<>>: column absent).  The three text columns
\* and the thirteen audio features of load_playlists are always there.
Absent == <<>>
Pristine(sz) == [sizes |-> sz, x |-> Absent, y |-> Absent, z |-> Absent, title |-> FALSE]
Datasets == {Pristine(sz) : sz \in {f \in [Names -> 0..MaxSize] : \E n \in Names : f[n] > 0}}

\* songs.groupby("playlist").size(): one entry per name that has rows.
Groups(o) == {n \in Names : o.sizes[n] > 0}

RECURSIVE SortedSizes(_, _)
SortedSizes(o, G) ==
    IF G = {} THEN <<>>
    ELSE LET n == CHOOSE m \in G : \A k \in G : o.sizes[m] <= o.sizes[k]
         IN <<o.sizes[n]>> \o SortedSizes(o, G \ {n})

\* statistics.median, doubled to stay in the integers.
Median2(s) ==
    IF Len(s) % 2 = 1
    THEN 2 * s[(Len(s) + 1) \div 2]
    ELSE s[Len(s) \div 2] + s[Len(s) \div 2 + 1]

\* round(num/den): halves go to the even neighbour.
Round(num, den) ==
    LET q == num \div den
        r == num % den
    IN IF 2 * r < den THEN q
       ELSE IF 2 * r > den THEN q + 1
       ELSE IF q % 2 = 0 THEN q ELSE q + 1

\* n_neighbors=round(typical_playlist_size/2)
NNeighbors(o) == Round(Median2(SortedSizes(o, Groups(o))), 4)

\* songs.drop(["playlist", "song_title", "song_interpret"], axis=1): the
\* columns fed to the pipeline beyond the thirteen audio features.
Extra(o) == [x |-> o.x, y |-> o.y, z |-> o.z, title |-> o.title]

\* The embedding of the rows: a function of the feature matrix, the labels
\* and the parameters (random_state makes UMAP repeatable).
Embedding(o, dims) ==
    [features |-> Extra(o), sizes |-> o.sizes, n_components |-> dims,
     n_neighbors |-> NNeighbors(o), random_state |-> RandomState]

\* pipe.fit_transform: RobustScaler cannot scale the text column title;
\* UMAP rejects n_components < 1 and n_neighbors < 2.  The playlist sizes
\* of the model stand for larger ones: what else the library does on a
\* handful of rows is left out.
PipelineError(o, dims) ==
    IF o.title THEN "scaler"
    ELSE IF dims < 1 \/ NNeighbors(o) < 2 THEN "umap"
    ELSE "none"

Fig(o, dims) == [x |-> o.x, y |-> o.y, z |-> IF dims = 3 THEN o.z ELSE Absent,
                 colors |-> Groups(o), title |-> o.title]
NoFig == [x |-> Absent, y |-> Absent, z |-> Absent, colors |-> {}, title |-> FALSE]

Outcome(status, error, ran, fig, after) ==
    [status |-> status, error |-> error, pipelineRan |-> ran, fig |-> fig, after |-> after]

\* The body of plot_songs on the DataFrame object o: the columns are
\* assigned on o itself, in the order of lines 99-103, until a line raises.
PlotSongsBody(o, dims) ==
    LET emb == Embedding(o, dims)
        o1 == [o EXCEPT !.x = <<emb, 1>>]
        o2 == [o1 EXCEPT !.y = <<emb, 2>>]
        o3 == IF dims = 3 THEN [o2 EXCEPT !.z = <<emb, 3>>] ELSE o2
        o4 == [o3 EXCEPT !.title = TRUE]
    IN IF PipelineError(o, dims) # "none"
       THEN Outcome("error", PipelineError(o, dims), TRUE, NoFig, o)
       ELSE IF dims < 2
       THEN Outcome("error", "index", TRUE, NoFig, o1)
       ELSE IF dims \notin {2, 3}
       THEN Outcome("error", "config", TRUE, NoFig, o4)
       ELSE Outcome("ok", "none", TRUE, Fig(o4, dims), o4)

\* st.cache_data: the key is the hash of the arguments as they are passed.
Key(o, dims) == <<o, dims>>
Cached(pc, o, dims) == \E e \in pc : e.key = Key(o, dims)

\* plot_songs(songs, dims) through st.cache_data.
PlotSongs(pc, o, dims) ==
    IF Cached(pc, o, dims)
    THEN Outcome("ok", "none", FALSE,
                 (CHOOSE e \in pc : e.key = Key(o, dims)).fig, o)
    ELSE PlotSongsBody(o, dims)

Dims == 0..4

EmbedInit ==
    /\ songs \in Datasets
    /\ plotCache = {}
    /\ calls = <<>>

\* A call of plot_songs on the current DataFrame object.
Plot ==
    \E dims \in Dims :
        LET r == PlotSongs(plotCache, songs, dims)
        IN /\ Len(calls) < MaxCalls
           /\ songs' = r.after
           /\ plotCache' = IF r.status = "ok"
                           THEN plotCache \cup {[key |-> Key(songs, dims), fig |-> r.fig]}
                           ELSE plotCache
           /\ calls' = Append(calls, [dims |-> dims, hit |-> Cached(plotCache, songs, dims),
                                      n_neighbors |-> NNeighbors(songs),
                                      before |-> songs, status |-> r.status,
                                      error |-> r.error, pipelineRan |-> r.pipelineRan,
                                      fig |-> r.fig, after |-> r.after])
           /\ UNCHANGED <<fetchVars, uiVars, distVars>>

\* A script rerun: st.cache_data hands out a new copy of the loaded table.
Reload ==
    /\ songs # Pristine(songs.sizes)
    /\ songs' = Pristine(songs.sizes)
    /\ UNCHANGED <<plotCache, calls, fetchVars, uiVars, distVars>>

(***************************************************************************)
(* plot_distribution                                                       *)
(***************************************************************************)
Codes == 0..MaxCode
Units == {"%", "s", "dB"}

\* An entry of audio_features.json as plot_distribution reads it: it has a
\* value_map (mapped: the codes the map has a label for) or a unit.
Entries == [kind : {"value_map"}, mapped : SUBSET Codes, unit : {"none"}]
               \cup [kind : {"unit"}, mapped : {{}}, unit : Units]

DistInputs == [entry : Entries, codes : (SUBSET Codes) \ {{}}, hue : {"playlist", "None"}]

RECURSIVE SortedCodes(_)
SortedCodes(S) ==
    IF S = {} THEN <<>>
    ELSE LET c == CHOOSE m \in S : \A k \in S : m <= k
         IN <<c>> \o SortedCodes(S \ {c})

\* value_map.get(str(label), label)
Label(entry, label) ==
    IF label \in entry.mapped THEN <<"label", label>> ELSE <<"raw", label>>

\* plt.gca().get_xticks() after sns.countplot: one tick per category drawn,
\* at the positions 0, 1, ..., in the order of the sorted codes.
XTicks(codes) == [i \in 1..Cardinality(codes) |-> i - 1]

NoChart == [plot |-> "none", categories |-> <<>>, ticklabels |-> <<>>, clip |-> "unset",
            percent |-> FALSE, xlabel |-> "unset", ylabel |-> "unset",
            legendMoved |-> FALSE]

\* match unit
Clip(unit) == IF unit = "%" THEN "(0, 1)" ELSE IF unit = "s" THEN "(0, None)" ELSE "None"

PlotDistribution(in) ==
    LET e == in.entry
        t == XTicks(in.codes)
        drawn == IF e.kind = "value_map"
                 THEN [NoChart EXCEPT !.plot = "count", !.categories = SortedCodes(in.codes),
                                      !.ticklabels = [i \in DOMAIN t |-> Label(e, t[i])],
                                      !.ylabel = "Number of songs"]
                 ELSE [NoChart EXCEPT !.plot = "kde", !.clip = Clip(e.unit),
                                      !.percent = (e.unit = "%"),
                                      !.xlabel = IF e.unit = "%" THEN "unset" ELSE e.unit,
                                      !.ylabel = "Share of songs"]
    IN [drawn EXCEPT !.legendMoved = (in.hue # "None")]

DistInit ==
    /\ distInput \in DistInputs
    /\ chart = NoChart

\* A call of plot_distribution.
Distribution ==
    /\ chart = NoChart
    /\ chart' = PlotDistribution(distInput)
    /\ UNCHANGED <<distInput, fetchVars, uiVars, embedVars>>

\* plt.close(), and the next selection of the widgets.
Close ==
    /\ chart # NoChart
    /\ chart' = NoChart
    /\ distInput' \in {d \in DistInputs : d.entry = distInput.entry /\ d.codes = distInput.codes}
    /\ UNCHANGED <<fetchVars, uiVars, embedVars>>

(***************************************************************************)
(* Specifications                                                          *)
(***************************************************************************)
FetchIdle == profile = <<>> /\ cache = NoEntry /\ fetchResult = NoResult /\ lastFault = NoFault
EmbedIdle == songs = Pristine([n \in Names |-> 0]) /\ plotCache = {} /\ calls = <<>>
DistIdle == distInput = [entry |-> [kind |-> "unit", mapped |-> {}, unit |-> "%"],
                         codes |-> {0}, hue |-> "None"]
            /\ chart = NoChart

InitFetch == FetchInit /\ UIInit /\ EmbedIdle /\ DistIdle
NextFetch == Load \/ Expire
SpecFetch == InitFetch /\ [][NextFetch]_vars

Init == FetchInit /\ UIInit /\ EmbedIdle /\ DistIdle
Next == Run \/ Expire
Spec == Init /\ [][Next]_vars

InitEmbed == FetchIdle /\ UIInit /\ EmbedInit /\ DistIdle
NextEmbed == Plot \/ Reload
SpecEmbed == InitEmbed /\ [][NextEmbed]_vars

InitDist == FetchIdle /\ UIInit /\ EmbedIdle /\ DistInit
NextDist == Distribution \/ Close
SpecDist == InitDist /\ [][NextDist]_vars

(***************************************************************************)
(* Properties                                                              *)
(***************************************************************************)
\* The resolvable track entries of playlist i, as <<playlist, track id>>.
Resolvable(p, i) ==
    LET t == SelectSeq(p[i].tracks, LAMBDA id : id # NoId)
    IN [k \in 1..Len(t) |-> <<i, t[k]>>]

ResolvableOf(p) == Concat([i \in 1..Len(p) |-> Resolvable(p, i)])

Fetched == fetchResult.status = "ok" /\ fetchResult.events # <<>>

\* C1: load_playlists returns one row per resolvable track entry of ALL the
\* playlists of the profile, whatever the page of the listing they are on.
C1_AllPlaylistsEnumerated ==
    Fetched => Len(fetchResult.value) = Len(ResolvableOf(profile))

\* C2: a track without id causes no descriptor lookup, no row and no sleep,
\* the loop goes on with the next track, and every row has an id.
C2_NullIdSkipped ==
    LET ev == fetchResult.events
        t == fetchResult.value
    IN /\ \A k \in DOMAIN ev :
              ev[k].op \in {"features", "append", "sleep"}
                  => profile[ev[k].pl].tracks[ev[k].tr] # NoId
       /\ \A k \in DOMAIN t : t[k].id # NoId
       /\ Fetched =>
              /\ [k \in DOMAIN t |-> <<t[k].pl, t[k].id>>]
                     = ResolvableOf(ListedPlaylists(profile))
              /\ Count(ev, LAMBDA e : e.op = "features") = Len(t)
              /\ Count(ev, LAMBDA e : e.op = "sleep") = Len(t)

\* C2 witness: a fetch met a track without id and made a row of the track
\* after it.
C2_Witness ==
    /\ Fetched
    /\ \E k \in DOMAIN fetchResult.value :
           LET r == fetchResult.value[k]
           IN \E j \in 1..Len(profile[r.pl].tracks) :
                  /\ profile[r.pl].tracks[j] = NoId
                  /\ \E e \in {fetchResult.events[n] : n \in DOMAIN fetchResult.events} :
                         e.op = "append" /\ e.pl = r.pl /\ e.tr > j

\* C6: when an upstream call fails the error reaches the caller as raised,
\* no call is made twice or after the failure, nothing is returned and no
\* cache entry is written, so that the next load fetches again.
C6_FailureLeavesNothing ==
    fetchResult.status = "error" =>
        LET ev == fetchResult.events
        IN /\ fetchResult.error = lastFault.err
           /\ Len(ev) = lastFault.at
           /\ IsCall(ev[Len(ev)])
           /\ \A m, n \in DOMAIN ev : ev[m] = ev[n] => m = n
           /\ ~fetchResult.returned
           /\ fetchResult.value = <<>>
           /\ ~cache.present

\* C6 witness: the fetch failed after it had collected rows.
C6_Witness ==
    /\ fetchResult.status = "error"
    /\ \E n \in DOMAIN fetchResult.events : fetchResult.events[n].op = "append"

\* The table the page works on when the fetch succeeds.
Table == RowsOf(profile, FullTrace(profile))
Loaded == screen.status \in {"warning", "content"}

\* C5: on an empty table the page shows the warning and neither the metrics
\* nor a chart; plot_distribution and plot_songs never see an empty table.
C5_EmptyTableWarning ==
    /\ (Loaded /\ Len(Table) = 0) =>
           /\ screen.warning
           /\ ~screen.metrics
           /\ screen.distCalls = 0
           /\ screen.mapCalls = 0
    /\ (screen.metrics \/ screen.distCalls > 0 \/ screen.mapCalls > 0) => Len(Table) > 0

\* C5 witness: the warning is on the page of a profile that has a playlist
\* whose tracks were all skipped.
C5_Witness ==
    /\ screen.warning
    /\ profile # <<>>
    /\ profile[1].tracks # <<>>

\* C8: the Songs metric is the number of rows and the Playlists metric the
\* number of playlists that contributed a row, same-named playlists included.
C8_MetricsCountPlaylists ==
    screen.metrics =>
        /\ screen.songs = Len(Table)
        /\ screen.playlists = Cardinality({Table[k].pl : k \in DOMAIN Table})

\* The plot_songs calls that ran the body of the function.
Ran == {k \in DOMAIN calls : ~calls[k].hit}

\* C3: the n_neighbors handed to the embedding is median playlist size / 2
\* rounded to an integer (at most 1/2 away from it) and is at least 1.
C3_NeighborsAtLeastOne ==
    \A k \in Ran :
        LET m2 == Median2(SortedSizes(calls[k].before, Groups(calls[k].before)))
        IN /\ 4 * calls[k].n_neighbors - m2 \in -2..2
           /\ calls[k].n_neighbors >= 1

\* C4: a dimensionality other than 2 or 3 is rejected with the configuration
\* error before the pipeline runs and before a coordinate column is written.
C4_InvalidDimsRejectedFirst ==
    \A k \in Ran :
        calls[k].dims \notin {2, 3} =>
            /\ calls[k].status = "error"
            /\ calls[k].error = "config"
            /\ ~calls[k].pipelineRan
            /\ calls[k].after = calls[k].before

\* C9: two runs of plot_songs on the same dataset with the same
\* dimensionality give the same coordinates, also when the second run gets
\* the very object the first run got.
C9_SameCoordinates ==
    \A i, j \in DOMAIN calls :
        (/\ i < j
         /\ calls[i].dims = calls[j].dims
         /\ calls[i].dims \in {2, 3}
         /\ calls[i].status = "ok")
            => /\ calls[j].status = "ok"
               /\ calls[j].fig.x = calls[i].fig.x
               /\ calls[j].fig.y = calls[i].fig.y
               /\ calls[j].fig.z = calls[i].fig.z

\* C10: plot_songs leaves the dataset object it is given as it was.
C10_InputUntouched ==
    \A k \in DOMAIN calls : calls[k].after = calls[k].before

\* C7: each tick label of the count plot is the value_map label of the code
\* of the category drawn at that tick, or the code itself if it has none.
C7_TickLabelsFollowCodes ==
    chart.plot = "count" =>
        /\ Len(chart.ticklabels) = Len(chart.categories)
        /\ \A i \in DOMAIN chart.ticklabels :
               chart.ticklabels[i] = Label(distInput.entry, chart.categories[i])

====
